---- MODULE Spec2Model ----
(***************************************************************************)
(* The ramp-and-supervise engine of sqlair-bench (src/main.go, src/db.go): *)
(* main and its root tomb, one start() instance (dbRamper + dbSpawner on   *)
(* its by-value copy of the root tomb), the per-generation operation tombs *)
(* and the RunDBOperation goroutines.  gopkg.in/tomb.v2 and the prometheus *)
(* default registry are modelled by what the calls in the source do.       *)
(***************************************************************************)
EXTENDS Naturals, Integers, Sequences, FiniteSets, TLC

\* ---------------------------------------------------------------- bounds
MaxInc == 2
MaxCeiling == 2
MaxFires == 2

\* The operation menus the engine is run with: each entry is the freq of one
\* DBOperationDef (0 = run once, 1 = a positive period).
Menus == { <<0>>, <<0, 1>>, <<1>> }

\* The ramp configurations <<inc, max>> the whole engine is explored with.
EngineConfigs == { <<1, 1>>, <<1, 2>>, <<2, 1>> }

\* The single runner on a clock: periods, operation durations, horizon.
MaxPeriod == 5
MaxDur == 4
MaxTime == 12

MaxOps == Len(<<0, 1>>)
MaxEnt == MaxInc + MaxCeiling
Ents == 1..MaxEnt
OpIdx == 1..MaxOps
MaxGen == MaxEnt
\* The ramper alone runs with every ceiling whose ramp, which may overshoot
\* the ceiling by up to inc - 1 entities, stays within MaxEnt entities.
MaxRampCeiling == MaxEnt - MaxInc + 1
Gens == 0..MaxGen

VARIABLES
  proc, crashCause,                      \* the process: running / crashed / exited
  menu, inc, max,                        \* perDBOperations freqs, dbRamper's inc and max
  root, cpy, dying, dead,                \* main's tomb, start()'s copy, their shared channels
  mainPc, mainResult, serverPc,          \* main goroutine and the http server goroutine
  ramperPc, ramperResult, numDBS, batch, makeErr, dbTotal, ch, chClosed, published,
  spawnerPc, spawnerResult, chNil, allDBs, dbs, gen, oi, di, genDBs,
  tombs, runner, registered,             \* opTomb per generation, runner goroutines, registry
  fired, failed, hist, errs,             \* invocations begun / failed, the two metrics per operation
  cancelled,                             \* main has called t.Kill(nil)
  tpc, tnow, tperiod, tdelay, tnext, tbuf, tend, tstarts, tdying,  \* one runner on a clock
  tkilledIn                              \* where that runner was when its tomb was killed

procVars == <<proc, crashCause>>
cfgVars == <<menu, inc, max>>
rootVars == <<root, cpy, dying, dead>>
mainVars == <<mainPc, mainResult, serverPc, cancelled>>
rampVars == <<ramperPc, ramperResult, numDBS, batch, makeErr, dbTotal, ch, chClosed, published>>
spawnVars == <<spawnerPc, spawnerResult, chNil, allDBs, dbs, gen, oi, di, genDBs>>
genVars == <<tombs, runner, registered>>
metricVars == <<fired, failed, hist, errs>>
timedVars == <<tpc, tnow, tperiod, tdelay, tnext, tbuf, tend, tstarts, tdying, tkilledIn>>
\* What no step of the engine changes: its configuration and the clocked runner.
fixedVars == <<cfgVars, timedVars>>
engineVars == <<procVars, cfgVars, rootVars, mainVars, rampVars, spawnVars, genVars, metricVars>>
vars == <<engineVars, timedVars>>

\* ------------------------------------------------------------ tomb.v2
\* A zero tomb.Tomb after init(): no goroutine, reason ErrStillAlive,
\* dying and dead open.
NewTomb == [alive |-> 0, reason |-> "StillAlive", dying |-> FALSE, dead |-> FALSE]

\* (*Tomb).kill on the reason field: the first kill sets the reason, a later
\* kill only replaces a nil reason.
KillReason(cur, reason) ==
  IF cur = "StillAlive" \/ cur = "nil" THEN reason ELSE cur

\* (*Tomb).kill: the first kill also closes dying.
TombKill(t, reason) ==
  [t EXCEPT !.reason = KillReason(t.reason, reason),
            !.dying = (t.dying \/ t.reason = "StillAlive")]

\* (*Tomb).Alive: Err() == ErrStillAlive.
TombAlive(t) == t.reason = "StillAlive"

\* (*Tomb).run after f returned err: alive--, kill when it was the last
\* goroutine or err is non-nil, close dead when it was the last.
TombRunDeadAtFirstExit(t, err) ==
  [TombKill([t EXCEPT !.alive = t.alive - 1], err) EXCEPT !.dead = TRUE]

TombRun(t, err) ==
  LET a == [t EXCEPT !.alive = t.alive - 1]
      k == IF a.alive = 0 \/ err # "nil" THEN TombKill(a, err) ELSE a
  IN  IF a.alive = 0 THEN [k EXCEPT !.dead = TRUE] ELSE k

\* The process panics: every goroutine stops where it is.
Crash(cause) ==
  /\ proc' = "crashed"
  /\ crashCause' = cause
  /\ UNCHANGED <<fixedVars, rootVars, mainVars, rampVars, spawnVars, genVars, metricVars>>

Running == proc = "running"

\* A goroutine of start()'s tomb copy returns err: run() on the copy.  The
\* copy has its own alive and reason but the dying and dead channels of the
\* root, so its kill closes the root's dying channel (a second close panics).
CpyRun(err) ==
  LET a == [cpy EXCEPT !.alive = cpy.alive - 1]
      kills == a.alive = 0 \/ err # "nil"
      closes == kills /\ a.reason = "StillAlive"
  IN  IF (closes /\ dying) \/ (a.alive = 0 /\ dead)
      THEN /\ proc' = "crashed"
           /\ crashCause' = "closeClosed"
           /\ UNCHANGED <<root, cpy, dying, dead>>
      ELSE /\ cpy' = [a EXCEPT !.reason = IF kills THEN KillReason(a.reason, err) ELSE a.reason]
           /\ dying' = (dying \/ closes)
           /\ dead' = (dead \/ a.alive = 0)
           /\ root' = root
           /\ UNCHANGED procVars

\* ------------------------------------------------------------ Init
InitEngine ==
  /\ proc = "running" /\ crashCause = ""
  \* main.go:316-324: t.Go(server) made the root alive = 1; go start(t, ...)
  /\ root = [alive |-> 1, reason |-> "StillAlive"]
  \* copied the tomb by value; each copy then ran t.Go twice (134-135).
  /\ cpy = [alive |-> 3, reason |-> "StillAlive"]
  /\ dying = FALSE /\ dead = FALSE
  /\ mainPc = "select" /\ mainResult = "none" /\ serverPc = "serving"
  /\ cancelled = FALSE
  /\ ramperPc = "loop" /\ ramperResult = "none" /\ numDBS = 0 /\ batch = <<>>
  /\ makeErr = FALSE /\ dbTotal = 0 /\ ch = <<>> /\ chClosed = FALSE /\ published = <<>>
  /\ spawnerPc = "select" /\ spawnerResult = "none" /\ chNil = FALSE
  /\ allDBs = <<>> /\ dbs = <<>> /\ gen = 0 /\ oi = 1 /\ di = 1
  /\ genDBs = [g \in Gens |-> <<>>]
  /\ tombs = [g \in Gens |-> NewTomb]
  /\ runner = [g \in 1..MaxGen |-> [o \in OpIdx |-> [e \in Ents |-> "none"]]]
  /\ registered = {}
  /\ fired = [o \in OpIdx |-> [e \in Ents |-> 0]]
  /\ failed = [o \in OpIdx |-> 0]
  /\ hist = [o \in OpIdx |-> 0]
  /\ errs = [o \in OpIdx |-> 0]

\* The clocked runner is not part of the engine's state space.
TimedOff ==
  /\ tpc = "off" /\ tnow = 0 /\ tperiod = 1 /\ tdelay = 0 /\ tnext = -1
  /\ tbuf = FALSE /\ tend = -1 /\ tstarts = <<>> /\ tdying = FALSE
  /\ tkilledIn = "none"

Init ==
  /\ InitEngine
  /\ menu \in Menus
  /\ \E c \in EngineConfigs : inc = c[1] /\ max = c[2]
  /\ TimedOff

\* ------------------------------------------------------------ dbRamper
\* The goroutine returns err: deferred close(newDBCh), then run() on the copy.
RamperReturn(err) ==
  /\ ramperPc' = "done"
  /\ ramperResult' = err
  /\ chClosed' = TRUE
  /\ CpyRun(err)

\* The loop condition of dbRamper: for numDBS < max (main.go:220).
RampMoreInclusive(n, m) == n <= m

RampMore(n, m) == n < m

\* dbTotal.Add(float64(len(dbs))): the counter grows by the number of
\* databases makeDBs returned (main.go:227-228).
CounterAddRequested(c, k) == c + inc

CounterAdd(c, k) == c + k

\* for _, db := range dbs over a batch of k databases sends nothing when
\* k = 0; the check of makeErr comes after the loop (main.go:230-236).
BatchDropped(k) == k < inc

BatchEmpty(k) == k = 0

\* makeDBs(opts, inc): every tick asks for inc databases, whatever numDBS
\* is (main.go:226).
BatchRequestClipped(n) == IF max - n < inc THEN max - n ELSE inc

BatchRequest(n) == inc

\* for numDBS < max { select { case <-ticker.C: } makeDBs(opts, inc) ... }:
\* the tick is served and makeDBs creates k databases, k < inc when the
\* provider fails on database k+1.
RamperTick ==
  /\ Running /\ ramperPc = "loop" /\ RampMore(numDBS, max)
  /\ \E k \in 0..BatchRequest(numDBS) :
       /\ numDBS' = numDBS + k
       /\ dbTotal' = CounterAdd(dbTotal, k)
       /\ makeErr' = (k < BatchRequest(numDBS))
       /\ batch' = [i \in 1..k |-> dbTotal + i]
       /\ IF BatchEmpty(k)
          THEN /\ RamperReturn("makeErr")
               /\ UNCHANGED <<ch, published>>
          ELSE /\ ramperPc' = "send"
               /\ UNCHANGED <<ramperResult, chClosed, ch, published, rootVars, procVars>>
  /\ UNCHANGED <<fixedVars, mainVars, spawnVars, genVars, metricVars>>

\* case <-t.Dying(): return nil
RamperDying ==
  /\ Running /\ ramperPc = "loop" /\ RampMore(numDBS, max) /\ dying
  /\ RamperReturn("nil")
  /\ UNCHANGED <<numDBS, batch, makeErr, dbTotal, ch, published>>
  /\ UNCHANGED <<fixedVars, mainVars, spawnVars, genVars, metricVars>>

\* the loop condition fails: return nil
RamperFinish ==
  /\ Running /\ ramperPc = "loop" /\ ~RampMore(numDBS, max)
  /\ RamperReturn("nil")
  /\ UNCHANGED <<numDBS, batch, makeErr, dbTotal, ch, published>>
  /\ UNCHANGED <<fixedVars, mainVars, spawnVars, genVars, metricVars>>

\* A send on the buffered channel newDBCh: the channel is a FIFO queue.
ChanSendFront(q, x) == <<x>> \o q

ChanSend(q, x) == Append(q, x)

\* newDBCh <- db on the channel of capacity inc; after the last send of the
\* batch, return makeErr if it is set, else go round the loop.
RamperSend ==
  /\ Running /\ ramperPc = "send" /\ Len(ch) < inc
  /\ ch' = ChanSend(ch, Head(batch))
  /\ published' = Append(published, Head(batch))
  /\ batch' = Tail(batch)
  /\ IF Len(batch) > 1
     THEN UNCHANGED <<ramperPc, ramperResult, chClosed, rootVars, procVars>>
     ELSE IF makeErr
          THEN RamperReturn("makeErr")
          ELSE /\ ramperPc' = "loop"
               /\ UNCHANGED <<ramperResult, chClosed, rootVars, procVars>>
  /\ UNCHANGED <<numDBS, makeErr, dbTotal>>
  /\ UNCHANGED <<fixedVars, mainVars, spawnVars, genVars, metricVars>>

\* ------------------------------------------------------------ dbSpawner
\* The goroutine returns err: run() on the copy.
SpawnerReturn(err) ==
  /\ spawnerPc' = "done"
  /\ spawnerResult' = err
  /\ CpyRun(err)

\* The cases of the select at main.go:172 that are ready.
RecvReady == ~chNil /\ (ch # <<>> \/ chClosed)
OpDeadReady == tombs[gen].dead
\* default is taken only when no case of the select is ready.
NoCaseReadyIgnoringInflow == ~dying /\ ~OpDeadReady

NoCaseReadyIgnoringDying == ~RecvReady /\ ~OpDeadReady

NoCaseReady == ~RecvReady /\ ~dying /\ ~OpDeadReady

\* case db, ok := <-ch with ok: dbs = append(dbs, db)
SpawnerRecv ==
  /\ Running /\ spawnerPc = "select" /\ ~chNil /\ ch # <<>>
  /\ dbs' = Append(dbs, Head(ch))
  /\ ch' = Tail(ch)
  /\ UNCHANGED <<spawnerPc, spawnerResult, chNil, allDBs, gen, oi, di, genDBs>>
  /\ UNCHANGED <<ramperPc, ramperResult, numDBS, batch, makeErr, dbTotal, chClosed, published>>
  /\ UNCHANGED <<procVars, fixedVars, rootVars, mainVars, genVars, metricVars>>

\* case db, ok := <-ch with !ok: ch = nil
SpawnerChClosed ==
  /\ Running /\ spawnerPc = "select" /\ ~chNil /\ ch = <<>> /\ chClosed
  /\ chNil' = TRUE
  /\ UNCHANGED <<spawnerPc, spawnerResult, allDBs, dbs, gen, oi, di, genDBs>>
  /\ UNCHANGED <<procVars, fixedVars, rootVars, mainVars, rampVars, genVars, metricVars>>

\* case <-t.Dying(): opTomb.Kill(nil); return opTomb.Wait()  (the Kill)
SpawnerDying ==
  /\ Running /\ spawnerPc = "select" /\ dying
  /\ tombs' = [tombs EXCEPT ![gen] = TombKill(tombs[gen], "nil")]
  /\ spawnerPc' = "dyingWait"
  /\ UNCHANGED <<spawnerResult, chNil, allDBs, dbs, gen, oi, di, genDBs>>
  /\ UNCHANGED <<runner, registered>>
  /\ UNCHANGED <<procVars, fixedVars, rootVars, mainVars, rampVars, metricVars>>

\* ... return opTomb.Wait(): blocks on the tomb's dead channel
SpawnerDyingWait ==
  /\ Running /\ spawnerPc = "dyingWait" /\ tombs[gen].dead
  /\ SpawnerReturn(tombs[gen].reason)
  /\ UNCHANGED <<chNil, allDBs, dbs, gen, oi, di, genDBs>>
  /\ UNCHANGED <<fixedVars, mainVars, rampVars, genVars, metricVars>>

\* case <-opTomb.Dead(): err := opTomb.Wait(); return err
SpawnerOpDead ==
  /\ Running /\ spawnerPc = "select" /\ OpDeadReady
  /\ SpawnerReturn(tombs[gen].reason)
  /\ UNCHANGED <<chNil, allDBs, dbs, gen, oi, di, genDBs>>
  /\ UNCHANGED <<fixedVars, mainVars, rampVars, genVars, metricVars>>

\* allDBs = append(allDBs, dbs...) (main.go:190)
AccumulatePendingOnly(all, pending) == pending

Accumulate(all, pending) == all \o pending

\* default: if len(dbs) == 0 { break } (main.go:187-189)
NothingPendingNever(pending) == FALSE

NothingPending(pending) == Len(pending) = 0

\* default with len(dbs) > 0, main.go:190-200: append to allDBs, clear dbs,
\* opTomb.Kill(nil), Wait only if opTomb.Alive(), opTomb = tomb.Tomb{}.
SpawnerRestart ==
  /\ Running /\ spawnerPc = "select" /\ NoCaseReady /\ ~NothingPending(dbs)
  /\ LET killed == TombKill(tombs[gen], "nil")
     IN  /\ (TombAlive(killed) => killed.dead)
         /\ tombs' = [tombs EXCEPT ![gen] = killed, ![gen + 1] = NewTomb]
  /\ allDBs' = Accumulate(allDBs, dbs)
  /\ dbs' = <<>>
  /\ gen' = gen + 1
  /\ genDBs' = [genDBs EXCEPT ![gen + 1] = allDBs']
  /\ spawnerPc' = "start" /\ oi' = 1 /\ di' = 1
  /\ UNCHANGED <<spawnerResult, chNil, runner, registered>>
  /\ UNCHANGED <<procVars, fixedVars, rootVars, mainVars, rampVars, metricVars>>

\* promauto.NewHistogram / NewCounter for operation o (main.go:145-159):
\* MustRegister panics when the same name and labels are registered already.
RegisterPanics(o) == o \in registered

\* One call RunDBOperation(opTomb, ...) of startPerDBOperations, preceded for
\* the first db of an operation by the registration of its two metrics.
\* t.Go panics on a tomb whose dead channel is closed.
SpawnerFork ==
  /\ Running /\ spawnerPc = "start"
  /\ IF di = 1 /\ RegisterPanics(oi) THEN Crash("dupRegister")
     ELSE IF tombs[gen].dead THEN Crash("goAfterDead")
     ELSE /\ registered' = registered \cup {oi}
          /\ tombs' = [tombs EXCEPT ![gen].alive = @ + 1]
          /\ runner' = [runner EXCEPT ![gen][oi][allDBs[di]] =
                          IF menu[oi] = 0 THEN "ready" ELSE "sleep"]
          /\ IF di < Len(allDBs)
             THEN /\ di' = di + 1
                  /\ UNCHANGED <<oi, spawnerPc>>
             ELSE IF oi < Len(menu)
                  THEN /\ oi' = oi + 1 /\ di' = 1
                       /\ UNCHANGED spawnerPc
                  ELSE /\ spawnerPc' = "select"
                       /\ UNCHANGED <<oi, di>>
          /\ UNCHANGED <<spawnerResult, chNil, allDBs, dbs, gen, genDBs>>
          /\ UNCHANGED <<procVars, fixedVars, rootVars, mainVars, rampVars, metricVars>>

\* ------------------------------------------------------------ RunDBOperation
\* runDBOp begins: the timer is started and op(db) is called (db.go:465-467).
BeginInvoke(g, o, e) ==
  /\ runner' = [runner EXCEPT ![g][o][e] = "invoke"]
  /\ fired' = [fired EXCEPT ![o][e] = @ + 1]
  /\ UNCHANGED <<failed, hist, errs, tombs, registered>>

\* freq == 0: runDBOp at once (db.go:481-482)
RunnerOnce(g, o, e) ==
  /\ Running /\ runner[g][o][e] = "ready"
  /\ BeginInvoke(g, o, e)
  /\ UNCHANGED <<procVars, fixedVars, rootVars, mainVars, rampVars, spawnVars>>

\* time.Sleep(initalDelay) returns; the ticker is created (db.go:489-493)
RunnerWake(g, o, e) ==
  /\ Running /\ runner[g][o][e] = "sleep"
  /\ runner' = [runner EXCEPT ![g][o][e] = "wait"]
  /\ UNCHANGED <<tombs, registered>>
  /\ UNCHANGED <<procVars, fixedVars, rootVars, mainVars, rampVars, spawnVars, metricVars>>

\* case <-ticker.C: runDBOp (db.go:497-498)
RunnerTick(g, o, e) ==
  /\ Running /\ runner[g][o][e] = "wait" /\ fired[o][e] < MaxFires
  /\ BeginInvoke(g, o, e)
  /\ UNCHANGED <<procVars, fixedVars, rootVars, mainVars, rampVars, spawnVars>>

\* op(db) returned (ok or an error) inside runDBOp: the deferred
\* ObserveDuration adds the sample (db.go:465-467).
RunDBOpObserveOnSuccess(o, ok) == hist' = [hist EXCEPT ![o] = IF ok THEN @ + 1 ELSE @]

RunDBOpObserve(o, ok) == hist' = [hist EXCEPT ![o] = @ + 1]

\* The caller's error branch: opErrCount.Inc() and a printed line, for both
\* the freq == 0 call and the ticker call (db.go:482-485, 498-501).
OnOpErrorPanicsOnce(o, ok) ==
  IF ~ok /\ menu[o] = 0
  THEN /\ proc' = "crashed" /\ crashCause' = "opPanic" /\ errs' = errs
  ELSE /\ errs' = [errs EXCEPT ![o] = IF ok THEN @ ELSE @ + 1]
       /\ UNCHANGED procVars

OnOpError(o, ok) ==
  /\ errs' = [errs EXCEPT ![o] = IF ok THEN @ ELSE @ + 1]
  /\ UNCHANGED procVars

\* After the invocation the once-runner returns nil (db.go:486), the
\* periodic one goes back to its select (db.go:495-496).
AfterInvokeRecurring(g, o, e, ok) ==
  /\ runner' = [runner EXCEPT ![g][o][e] = "wait"]
  /\ UNCHANGED tombs

AfterInvoke(g, o, e, ok) ==
  IF menu[o] = 0
  THEN /\ runner' = [runner EXCEPT ![g][o][e] = "done"]
       /\ tombs' = [tombs EXCEPT ![g] = TombRun(tombs[g], "nil")]
  ELSE /\ runner' = [runner EXCEPT ![g][o][e] = "wait"]
       /\ UNCHANGED tombs

\* runDBOp returns with the operation's outcome ok.
RunnerEnd(g, o, e) ==
  /\ Running /\ runner[g][o][e] = "invoke"
  /\ \E ok \in BOOLEAN :
       /\ failed' = [failed EXCEPT ![o] = IF ok THEN @ ELSE @ + 1]
       /\ RunDBOpObserve(o, ok)
       /\ OnOpError(o, ok)
       /\ AfterInvoke(g, o, e, ok)
  /\ UNCHANGED <<fired, registered>>
  /\ UNCHANGED <<fixedVars, rootVars, mainVars, rampVars, spawnVars>>

\* case <-t.Dying(): return nil (db.go:502-503)
RunnerExit(g, o, e) ==
  /\ Running /\ runner[g][o][e] = "wait" /\ tombs[g].dying
  /\ runner' = [runner EXCEPT ![g][o][e] = "done"]
  /\ tombs' = [tombs EXCEPT ![g] = TombRun(tombs[g], "nil")]
  /\ UNCHANGED registered
  /\ UNCHANGED <<procVars, fixedVars, rootVars, mainVars, rampVars, spawnVars, metricVars>>

\* ------------------------------------------------------------ main
\* run() on the root tomb when the server goroutine returns err (always
\* non-nil for ListenAndServe); closing a channel the copy closed panics.
RootRun(err) ==
  LET a == [root EXCEPT !.alive = root.alive - 1]
      closes == a.reason = "StillAlive"
  IN  IF (closes /\ dying) \/ (a.alive = 0 /\ dead)
      THEN /\ proc' = "crashed"
           /\ crashCause' = "closeClosed"
           /\ UNCHANGED <<root, cpy, dying, dead>>
      ELSE /\ root' = [a EXCEPT !.reason = KillReason(a.reason, err)]
           /\ dying' = (dying \/ closes)
           /\ dead' = (dead \/ a.alive = 0)
           /\ cpy' = cpy
           /\ UNCHANGED procVars

\* server.ListenAndServe() fails on its own (main.go:318-320)
ServerFail ==
  /\ Running /\ serverPc = "serving"
  /\ serverPc' = "returned"
  /\ RootRun("listenErr")
  /\ UNCHANGED <<mainPc, mainResult, cancelled>>
  /\ UNCHANGED <<fixedVars, rampVars, spawnVars, genVars, metricVars>>

\* after server.Close(), ListenAndServe returns http.ErrServerClosed
ServerClosed ==
  /\ Running /\ serverPc = "closing"
  /\ serverPc' = "returned"
  /\ RootRun("ErrServerClosed")
  /\ UNCHANGED <<mainPc, mainResult, cancelled>>
  /\ UNCHANGED <<fixedVars, rampVars, spawnVars, genVars, metricVars>>

\* case <-sig: t.Kill(nil); server.Close()  (main.go:331-333)
MainSignal ==
  /\ Running /\ mainPc = "select"
  /\ IF root.reason = "StillAlive" /\ dying THEN Crash("closeClosed")
     ELSE /\ root' = [root EXCEPT !.reason = KillReason(root.reason, "nil")]
          /\ dying' = TRUE
          /\ mainPc' = "wait"
          /\ cancelled' = TRUE
          /\ serverPc' = IF serverPc = "serving" THEN "closing" ELSE serverPc
          /\ UNCHANGED <<cpy, dead, mainResult>>
          /\ UNCHANGED <<procVars, fixedVars, rampVars, spawnVars, genVars, metricVars>>

\* case <-t.Dead():  (main.go:330)
MainDead ==
  /\ Running /\ mainPc = "select" /\ dead
  /\ mainPc' = "wait"
  /\ UNCHANGED <<mainResult, serverPc, cancelled>>
  /\ UNCHANGED <<procVars, fixedVars, rootVars, rampVars, spawnVars, genVars, metricVars>>

\* err = t.Wait(); fmt.Println(err); main returns and the process exits
MainWait ==
  /\ Running /\ mainPc = "wait" /\ dead
  /\ mainResult' = root.reason
  /\ mainPc' = "done"
  /\ proc' = "exited"
  /\ UNCHANGED <<crashCause, serverPc, cancelled>>
  /\ UNCHANGED <<fixedVars, rootVars, rampVars, spawnVars, genVars, metricVars>>

\* ------------------------------------------------------------ Next
Runner ==
  \E g \in 1..MaxGen, o \in OpIdx, e \in Ents :
    \/ RunnerOnce(g, o, e)
    \/ RunnerWake(g, o, e)
    \/ RunnerTick(g, o, e)
    \/ RunnerEnd(g, o, e)
    \/ RunnerExit(g, o, e)

Next ==
  \/ RamperTick \/ RamperDying \/ RamperFinish \/ RamperSend
  \/ SpawnerRecv \/ SpawnerChClosed \/ SpawnerDying \/ SpawnerDyingWait
  \/ SpawnerOpDead \/ SpawnerRestart \/ SpawnerFork
  \/ Runner
  \/ ServerFail \/ ServerClosed \/ MainSignal \/ MainDead \/ MainWait

Spec == Init /\ [][Next]_vars

\* ------------------------------------------------------------ the engine, fairly scheduled
\* The Go scheduler runs every goroutine that can take a step: the ramper,
\* the spawner and each runner goroutine.  The signal and the failure of the
\* http server are the environment's and carry no fairness.
RamperNext == RamperTick \/ RamperDying \/ RamperFinish \/ RamperSend

SpawnerNext ==
  \/ SpawnerRecv \/ SpawnerChClosed \/ SpawnerDying \/ SpawnerDyingWait
  \/ SpawnerOpDead \/ SpawnerRestart \/ SpawnerFork

Fairness ==
  /\ WF_vars(RamperNext)
  /\ WF_vars(SpawnerNext)
  /\ WF_vars(Runner)
  /\ WF_vars(MainDead \/ MainWait)

SpecFair == Init /\ [][Next]_vars /\ Fairness

\* ------------------------------------------------------------ the Ramp Controller alone
\* dbRamper with the consumer of its channel and the root's cancellation,
\* for every inc and max up to the bounds.
InitRamp ==
  /\ InitEngine
  /\ menu = <<1>>
  /\ inc \in 1..MaxInc
  /\ max \in 1..MaxRampCeiling
  /\ TimedOff

NextRamp ==
  \/ RamperTick \/ RamperDying \/ RamperFinish \/ RamperSend
  \/ SpawnerRecv \/ SpawnerChClosed
  \/ ServerFail \/ ServerClosed \/ MainSignal \/ MainDead \/ MainWait

SpecRamp == InitRamp /\ [][NextRamp]_vars

\* ------------------------------------------------------------ one runner on a clock
\* RunDBOperation with freq > 0 (db.go:489-505) started at time 0, in whole
\* time units: the goroutine reacts at once, op(db) takes 0..MaxDur.
InitTimed ==
  /\ InitEngine
  /\ menu = <<1>> /\ inc = 1 /\ max = 1
  /\ tpc = "sleep" /\ tnow = 0
  /\ tperiod \in 2..MaxPeriod
  \* rand.Int63n(int64(freq)) is in [0, freq)
  /\ tdelay \in 0..(tperiod - 1)
  /\ tnext = -1 /\ tbuf = FALSE /\ tend = -1 /\ tstarts = <<>> /\ tdying = FALSE
  /\ tkilledIn = "none"

\* time.NewTicker(freq) created at time now: its first tick is one freq
\* later (db.go:492).
FirstTickAtOnce(now, p) == now

FirstTick(now, p) == now + p

\* time.Sleep(initalDelay) returns, whether the tomb was killed or not, and
\* the ticker is created.
TimedWake ==
  /\ tpc = "sleep" /\ tnow = tdelay
  /\ tpc' = "wait"
  /\ tnext' = FirstTick(tnow, tperiod)
  /\ UNCHANGED <<tnow, tperiod, tdelay, tbuf, tend, tstarts, tdying, tkilledIn, engineVars>>

\* The ticker fires: the tick goes into the channel's one slot, or is dropped
\* when the slot is taken.
TimedTickerFire ==
  /\ tpc \in {"wait", "invoke"} /\ tnext = tnow
  /\ tbuf' = TRUE
  /\ tnext' = tnext + tperiod
  /\ UNCHANGED <<tpc, tnow, tperiod, tdelay, tend, tstarts, tdying, tkilledIn, engineVars>>

\* case <-ticker.C: runDBOp(...) starts and will take dur.
TimedFire ==
  /\ tpc = "wait" /\ tbuf
  /\ \E dur \in 0..MaxDur : tend' = tnow + dur
  /\ tbuf' = FALSE
  /\ tpc' = "invoke"
  /\ tstarts' = Append(tstarts, tnow)
  /\ UNCHANGED <<tnow, tperiod, tdelay, tnext, tdying, tkilledIn, engineVars>>

\* runDBOp returns; back to the select.
TimedEnd ==
  /\ tpc = "invoke" /\ tnow = tend
  /\ tpc' = "wait"
  /\ UNCHANGED <<tnow, tperiod, tdelay, tnext, tbuf, tend, tstarts, tdying, tkilledIn, engineVars>>

\* The generation's tomb is killed.
TimedKill ==
  /\ tpc # "done" /\ ~tdying
  /\ tdying' = TRUE
  /\ tkilledIn' = tpc
  /\ UNCHANGED <<tpc, tnow, tperiod, tdelay, tnext, tbuf, tend, tstarts, engineVars>>

\* case <-t.Dying(): return nil; the deferred ticker.Stop().
TimedExit ==
  /\ tpc = "wait" /\ tdying
  /\ tpc' = "done"
  /\ tnext' = -1
  /\ UNCHANGED <<tnow, tperiod, tdelay, tbuf, tend, tstarts, tdying, tkilledIn, engineVars>>

\* Time passes when nothing is due at this instant.
TimedDue ==
  \/ tpc = "sleep" /\ tnow = tdelay
  \/ tpc \in {"wait", "invoke"} /\ tnext = tnow
  \/ tpc = "wait" /\ (tbuf \/ tdying)
  \/ tpc = "invoke" /\ tnow = tend

TimedPass ==
  /\ tpc # "done" /\ tnow < MaxTime /\ ~TimedDue
  /\ tnow' = tnow + 1
  /\ UNCHANGED <<tpc, tperiod, tdelay, tnext, tbuf, tend, tstarts, tdying, tkilledIn, engineVars>>

NextTimed ==
  \/ TimedWake \/ TimedTickerFire \/ TimedFire \/ TimedEnd
  \/ TimedKill \/ TimedExit \/ TimedPass

SpecTimed == InitTimed /\ [][NextTimed]_vars

\* ------------------------------------------------------------ properties
Range(sq) == { sq[i] : i \in 1..Len(sq) }

IsPrefix(a, b) == Len(a) <= Len(b) /\ \A i \in 1..Len(a) : a[i] = b[i]

MenuOps == 1..Len(menu)

\* A runner goroutine that has been forked and has not returned.
LivePcs == {"ready", "sleep", "wait", "invoke"}

RunnerAlive(g, o, e) == proc = "running" /\ runner[g][o][e] \in LivePcs

\* The (operation, entity) pairs a runner was forked for in generation g.
RunnerSet(g) == { p \in OpIdx \X Ents : g >= 1 /\ runner[g][p[1]][p[2]] # "none" }

RECURSIVE SumOver(_, _)
SumOver(f, S) ==
  IF S = {} THEN 0
  ELSE LET x == CHOOSE y \in S : TRUE IN f[x] + SumOver(f, S \ {x})

FiredTotal(o) == SumOver(fired[o], Ents)

Invoking(o) ==
  Cardinality({ p \in (1..MaxGen) \X Ents : runner[p[1]][o][p[2]] = "invoke" })

\* C1: at every instant every Operation Runner that is alive belongs to one
\* generation, the one the spawner has last begun: the interval of a
\* generation (from the moment the spawner begins it to the exit of its last
\* runner) does not overlap the interval of its successor.
C1_OneGenerationAlive ==
  \A g \in 1..MaxGen, o \in OpIdx, e \in Ents : RunnerAlive(g, o, e) => g = gen

\* C2: the spawner awaits the full drain of generation N before it starts
\* generation N+1: once the spawner has begun a generation, no invocation
\* issued by a runner of an earlier generation is in progress.
C2_DrainAwaited ==
  \A g \in 1..MaxGen, o \in OpIdx, e \in Ents :
    (proc = "running" /\ g < gen) => runner[g][o][e] # "invoke"

\* The spawner has completed the start of its first generation.
FirstRestartDone == gen >= 2 \/ (gen = 1 /\ spawnerPc # "start")

\* The start of a generation ended in a panic of the spawner.
StartPanicked == proc = "crashed" /\ crashCause \in {"dupRegister", "goAfterDead"}

\* C3: at every instant after the first restart at which the spawner is not
\* in the middle of starting a generation, the runners of the live generation
\* are exactly accumulated x operationDefinitions: no entity a restart has
\* taken into accumulated is missing an operation runner.
C3_RunnersCoverAccumulated ==
  (FirstRestartDone /\ (spawnerPc # "start" \/ StartPanicked))
     => RunnerSet(gen) = MenuOps \X Range(allDBs)

\* C4: the accumulated sequence only grows (no step removes an entity or
\* changes what is there), and the entities scheduled by a generation
\* include those scheduled by every earlier generation.
C4_AccumulatedGrows ==
  [][ /\ IsPrefix(allDBs, allDBs')
      /\ \A g \in 1..gen', h \in 1..gen' :
            g <= h => Range(genDBs'[g]) \subseteq Range(genDBs'[h]) ]_vars

C4_Witness ==
  /\ gen = 2
  /\ Range(genDBs[1]) # {}
  /\ Range(genDBs[1]) # Range(genDBs[2])

\* C5: with the ceiling a multiple of the increment, the ramp never creates
\* or publishes more than ceiling entities, and when it has closed its
\* channel with no creation failure and no cancellation it has published
\* exactly the ceiling entities, in creation order.
C5_RampEmitsCeiling ==
  (max % inc = 0) =>
     /\ dbTotal <= max
     /\ Len(published) <= max
     /\ (chClosed /\ ramperResult = "nil" /\ ~dying) => published = [i \in 1..max |-> i]

C5_Witness ==
  /\ inc = 1 /\ max = 2
  /\ chClosed /\ ramperResult = "nil" /\ ~dying
  /\ published = <<1, 2>>

\* C6: a zero-period operation is invoked exactly once per entity over the
\* whole run: never more than once, and once the spawner has taken the
\* entity into a generation and no once-runner for it is still to finish
\* (the spawner is not in the middle of a start, or that start has ended in
\* a panic), exactly once.
C6_ZeroOpOncePerEntity ==
  \A o \in MenuOps, e \in Ents :
    menu[o] = 0 =>
      /\ fired[o][e] <= 1
      /\ ( /\ spawnerPc # "start" \/ StartPanicked
           /\ e \in Range(allDBs)
           /\ \A g \in 1..MaxGen : runner[g][o][e] \notin {"ready", "invoke"} )
         => fired[o][e] = 1

\* C7: a runner with period p that is not cancelled starts its first
\* invocation at a time in [0, p) after it was started, and every later
\* invocation p after the previous one.
C7_FireTimes ==
  /\ Len(tstarts) >= 1 => tstarts[1] < tperiod
  /\ \A i \in 2..Len(tstarts) : tstarts[i] = tstarts[i - 1] + tperiod

\* C8: after the root is cancelled (and the http server has not failed on
\* its own), when main's join has returned, no Operation Runner is alive and
\* the Ramp Controller, the Population Spawner and the root join have all
\* terminated with a nil result.
C8_CleanJoin ==
  (cancelled /\ mainPc = "done" /\ root.reason # "listenErr") =>
     /\ mainResult = "nil"
     /\ ramperResult = "nil"
     /\ spawnerResult = "nil"
     /\ \A g \in 1..MaxGen, o \in OpIdx, e \in Ents : runner[g][o][e] \notin LivePcs

C10_SamplePerFire ==
  \A o \in OpIdx :
    /\ hist[o] + Invoking(o) = FiredTotal(o)
    /\ errs[o] = failed[o]

C10_Witness ==
  \E o \in OpIdx :
    /\ FiredTotal(o) = 2 /\ Invoking(o) = 0
    /\ failed[o] = 2 /\ errs[o] = 2 /\ hist[o] = 2

\* A runner has been forked for entity e for every operation of the menu.
Scheduled(e) ==
  \A o \in MenuOps : \E g \in 1..MaxGen : runner[g][o][e] # "none"

\* C11: under fair scheduling and without root cancellation, every entity
\* the ramper has published is eventually received by the spawner and
\* eventually has a runner forked for every operation definition.
C11_EveryEntityScheduled ==
  \A e \in Ents : (e \in Range(published)) ~> (dying \/ Scheduled(e))

C13_CreationFailureFatal ==
  ramperResult = "makeErr" =>
     /\ ramperPc = "done"
     /\ root.reason = "makeErr"
     /\ (mainPc = "done" => mainResult = "makeErr")

\* C14: the root is one joinable lifecycle: when the root's Wait in main has
\* returned, the ramper and the spawner started by start() have both
\* exited, and the result is the first fatal error of either, if any.
C14_RootJoinsEngine ==
  mainPc = "done" =>
     /\ ramperPc = "done"
     /\ spawnerPc = "done"
     /\ (cpy.reason \notin {"StillAlive", "nil"} => mainResult = cpy.reason)

\* The entities in the order makeDBs created them.
Created == [i \in 1..dbTotal |-> i]

\* C15: entities reach the spawner in creation order without loss or
\* duplication: what the spawner has received (accumulated, then pending) is
\* a prefix of the creation order, together with the channel's content it is
\* exactly what the ramper has sent, and a generation being started has
\* forked its runners over the accumulated entities in that order.
C15_CreationOrder ==
  /\ IsPrefix(allDBs \o dbs, Created)
  /\ IsPrefix(published, Created)
  /\ allDBs \o dbs \o ch = published
  /\ spawnerPc = "start" =>
       \A o \in MenuOps, i \in 1..Len(allDBs) :
          (runner[gen][o][allDBs[i]] # "none") <=> (o < oi \/ (o = oi /\ i < di))

C15_Witness ==
  /\ allDBs = <<1, 2>> /\ spawnerPc = "start" /\ oi = 1 /\ di = 2
  /\ runner[gen][1][1] # "none" /\ runner[gen][1][2] = "none"

\* C16: in the scenario tickPeriod = 1s, incrementSize = 2, ceiling = 4 with
\* a 5s-period operation "touch", the generation started after the second
\* tick (t = 2s) has recorded a "touch" invocation for each entity by
\* t = 6s: a runner with period 5 that is not cancelled has started an
\* invocation when 6 - 2 = 4 time units have passed since it was started.
C16_TouchBySixSeconds ==
  (tperiod = 5 /\ ~tdying /\ tnow >= 6 - 2) => Len(tstarts) >= 1

\* C17: after a generation's tomb is killed, its Wait returns only once
\* every runner of the generation has exited (a runner mid-invocation or in
\* its initial delay included), and it returns nil when the generation
\* stopped because it was cancelled: the step in which the spawner's
\* opTomb.Wait() returns is taken with no runner of the generation alive and
\* yields nil.
C17_WaitAfterDrain ==
  [][ (spawnerPc = "dyingWait" /\ spawnerPc' = "done") =>
        /\ \A o \in OpIdx, e \in Ents : runner[gen][o][e] \notin LivePcs
        /\ spawnerResult' = "nil" ]_vars

C17_Witness ==
  /\ proc = "running" /\ dying
  /\ spawnerPc = "done" /\ spawnerResult = "nil"
  /\ \E o \in MenuOps, e \in Ents :
        menu[o] = 1 /\ runner[gen][o][e] = "done" /\ fired[o][e] >= 1

\* C18: there is one latency histogram and one error counter per operation
\* for the whole run: the start of a second or later generation never
\* registers a metric an earlier generation registered, so no start ends in
\* the panic of a duplicate registration.
C18_NoDuplicateRegistration ==
  ~(proc = "crashed" /\ crashCause = "dupRegister")

\* C19 as stated: the spawner gives cancellation priority: whenever the root
\* is dying at the moment the spawner selects its next step, that step is the
\* cancellation step; it receives no further entity and starts no further
\* generation.
C19_CancellationFirst ==
  [][ (dying /\ spawnerPc = "select") => (dbs' = dbs /\ gen' = gen) ]_vars

\* C19: whenever the root is dying at the moment the spawner selects its
\* next step, the spawner does not start a further generation (it may still
\* receive an entity that is ready, or see the generation's tomb dead, before
\* it takes the cancellation step).
C19_NoRestartOnceDying ==
  [][ (dying /\ spawnerPc = "select") => (gen' = gen /\ allDBs' = allDBs) ]_vars

C19_Witness ==
  /\ proc = "running" /\ dying /\ spawnerPc = "dyingWait"
  /\ dbs # <<>> /\ gen >= 1

\* C20: if the live generation's tomb dies on its own, without the spawner
\* having cancelled it, the spawner stops and surfaces a non-nil error as a
\* fatal failure: a spawner that has stopped without root cancellation has
\* returned a non-nil error.
C20_GenerationDeathIsFatal ==
  spawnerPc = "done" => (dying \/ spawnerResult # "nil")

\* C21: after root cancellation the ramper eventually terminates and closes
\* its channel, from every state it can be in: it is never left in a send
\* that nothing can complete, that is, blocked on the full channel while the
\* spawner has stopped receiving.
C21_RamperNeverStuck ==
  (dying /\ ramperPc = "send" /\ Len(ch) >= inc) => spawnerPc \in {"select", "start"}

\* C22: each start of a generation forks exactly one runner for every pair of
\* an entity of that generation's list and an operation of the menu: once the
\* start of generation gen has ended, the pairs that got a runner are exactly
\* the product of the menu and the list, none skipped.
C22_OneRunnerPerPair ==
  (gen >= 1 /\ (spawnerPc # "start" \/ StartPanicked))
    => RunnerSet(gen) = MenuOps \X Range(genDBs[gen])

\* The runners of zero-period operations, as (generation, operation, entity),
\* over the generations begun so far and the entities accumulated so far.
OnceRunners == { p \in (1..gen) \X MenuOps \X Range(allDBs) : menu[p[2]] = 0 }

\* C23: within one generation a runner with period 0 is never sleeping nor
\* waiting for a tick; once forked its only step is to begin its invocation,
\* cancelled or not; the end of that invocation, success or failure, is its
\* return with a nil result on the generation's tomb; and a runner that has
\* returned stays so: one invocation, no recurrence.
C23_OnceRunner ==
  [][ \A p \in OnceRunners :
        LET pc  == runner[p[1]][p[2]][p[3]]
            pc2 == runner'[p[1]][p[2]][p[3]]
        IN  /\ pc \notin {"sleep", "wait"}
            /\ pc = "none" => pc2 \in {"none", "ready"}
            /\ pc = "ready" => pc2 \in {"ready", "invoke"}
            /\ pc = "invoke" => pc2 \in {"invoke", "done"}
            /\ (pc = "invoke" /\ pc2 = "done")
                 => tombs'[p[1]] = TombRun(tombs[p[1]], "nil")
            /\ pc = "done" => pc2 = "done" ]_vars

C23_Witness ==
  \E p \in OnceRunners :
    /\ runner[p[1]][p[2]][p[3]] = "done"
    /\ fired[p[2]][p[3]] = 1 /\ failed[p[2]] = 1
    /\ tombs[p[1]].dying /\ tombs[p[1]].reason = "nil"
    /\ spawnerPc = "done" /\ spawnerResult = "nil" /\ dying

\* C24: when a creation fails in the middle of a tick, the entities created
\* earlier in that tick are published and counted before the ramp ends: once
\* the ramper has returned the creation error, everything created has been
\* published in order, what the spawner has not received yet is still in the
\* channel, and the channel is closed.
C24_PartialBatchPublished ==
  ramperResult = "makeErr" =>
     /\ ramperPc = "done" /\ chClosed /\ batch = <<>>
     /\ published = Created
     /\ dbs \o ch = published

C24_Witness ==
  /\ inc = 2 /\ ramperResult = "makeErr" /\ chClosed
  /\ published = <<1>> /\ dbTotal = 1
  /\ ch = <<1>>

PeriodicPairs(g) == { p \in MenuOps \X Range(genDBs[g]) : menu[p[1]] > 0 }

C27_ForkOnLiveTomb ==
  /\ (proc = "running" /\ spawnerPc = "start") => ~tombs[gen].dead
  /\ crashCause # "goAfterDead"

\* C28: when the root is cancelled before the spawner has started its first
\* generation, the spawner's cancel-and-wait of the empty generation tomb
\* returns: the spawner is never waiting on a tomb that is not dead and has
\* no goroutine left to end it.
C28_EmptyWaitReturns ==
  spawnerPc = "dyingWait" => (tombs[gen].dead \/ tombs[gen].alive > 0)

\* C30: while the root is not cancelled and nothing fatal has happened, the
\* spawner keeps running: it has not returned, in particular not because
\* every runner of the live generation has finished.
C30_SpawnerKeepsRunning ==
  (~dying /\ proc = "running" /\ ramperResult # "makeErr") => spawnerPc # "done"

\* C29: once the generation has been cancelled its runner begins no new
\* invocation: in particular, when a tick and the cancellation are both
\* pending in the runner's select, the runner does not serve the tick.
C29_NoInvocationOnceCancelled ==
  [][ tdying => ~(tpc = "wait" /\ tpc' = "invoke") ]_vars

\* C31: once the spawner has seen the ramp channel closed and has restarted
\* for the entities that were pending then, every entity it has received is
\* scheduled in the live generation, which is kept until cancellation: the
\* process is up and each received entity has a runner per operation there.
C31_ClosedChannelDrained ==
  (chNil /\ dbs = <<>> /\ ~dying /\ (spawnerPc # "start" \/ StartPanicked))
    => /\ proc = "running"
       /\ \A o \in MenuOps, e \in Range(allDBs) : runner[gen][o][e] # "none"

\* C32: a positive-period runner whose generation is cancelled while the
\* runner is in its initial delay performs no invocation at all and exits
\* when the delay elapses, less than one period after it was started: the
\* delay is slept to its end, and the clock does not move past it with the
\* runner still there.
C32_CancelledInDelay ==
  tkilledIn = "sleep" =>
     /\ tstarts = <<>> /\ ~tbuf
     /\ tnow <= tdelay /\ tdelay < tperiod
     /\ tpc \in {"sleep", "wait", "done"}
     /\ tpc \in {"wait", "done"} => tnow = tdelay

C32_Witness ==
  /\ tkilledIn = "sleep" /\ tpc = "done"
  /\ tperiod = 3 /\ tdelay = 2 /\ tnow = 2 /\ tstarts = <<>>

\* ceil(a / b) for positive b.
CeilDiv(a, b) == (a + b - 1) \div b

\* C33: for a ceiling that is not a multiple of the increment the ramp never
\* creates inc or more entities beyond the ceiling, and a ramp that has ended
\* with no failure and no cancellation stopped at the first tick that brought
\* the count to the ceiling or above: it created and published exactly
\* inc * ceil(ceiling / inc) entities.
C33_OvershootBelowIncrement ==
  (max % inc # 0) =>
     /\ dbTotal < max + inc
     /\ (ramperPc = "done" /\ ramperResult = "nil" /\ ~dying) =>
          /\ dbTotal = inc * CeilDiv(max, inc)
          /\ dbTotal > max
          /\ published = [i \in 1..dbTotal |-> i]

C33_Witness ==
  /\ inc = 2 /\ max = 3
  /\ ramperPc = "done" /\ ramperResult = "nil" /\ ~dying
  /\ dbTotal = 4 /\ published = <<1, 2, 3, 4>>

\* C34: after root cancellation has been signalled the ramper begins no new
\* batch: no step taken with the root dying serves a tick, so none creates
\* an entity.
C34_NoBatchOnceDying ==
  [][ dying => (dbTotal' = dbTotal /\ ~(ramperPc = "loop" /\ ramperPc' = "send")) ]_vars

\* The entities the spawner has received so far: accumulated, then pending.
Received == Len(allDBs) + Len(dbs)

\* C35: the number of restarts the spawner has performed never exceeds the
\* number of entities it has received, and every restart consumes at least
\* one pending entity: the step that begins a generation takes a non-empty
\* pending list into accumulated, so the generation it starts is over
\* strictly more entities than the generation before it.
C35_RestartsBoundedByReceived ==
  /\ gen <= Len(allDBs) /\ gen <= Received
  /\ \A g \in 1..gen : Len(genDBs[g]) > Len(genDBs[g - 1])
  /\ \A g \in 1..gen : Len(genDBs[g]) >= g

C35_Witness ==
  /\ gen = 2 /\ Received = 2
  /\ Len(genDBs[1]) = 1 /\ Len(genDBs[2]) = 2

====
